---- MODULE Spec2Model ----
(***************************************************************************)
(* Model of the two Atlassian link crawlers of workspace-spider:           *)
(*   src/src/atlassian/confluencelinks.py  (wiki, cursor pagination)       *)
(*   src/src/atlassian/jiralinks.py        (issue tracker, offset          *)
(*                                          pagination, ADF extraction)    *)
(* One run of one script is one behaviour.  Every HTTP GET attempt is one  *)
(* step; the code that runs between two GETs (loop bodies, exception       *)
(* handlers, returns, the report) belongs to the step of the GET that      *)
(* precedes it.  Strings are sequences of tokens: " " is whitespace, every *)
(* other token is a run of non-whitespace characters.                      *)
(***************************************************************************)
EXTENDS Integers, Sequences, FiniteSets, TLC

VARIABLES
    script,     \* which script runs: "confluence" | "jira"
    env,        \* which configuration variables are set (load_dotenv/os.getenv)
    pc,         \* position of the run
    error,      \* the uncaught exception that ended the run ("none" if none)
    attempt,    \* attempts made so far by the fetcher call in progress (0: no call)
    outcome,    \* "retry" while a fetcher call is between two attempts, else "none"
    resp,       \* the response of the last attempt
    gaveUp,     \* history: the attempts of the fetcher call that gave up in the last step (0: none did)
    netUsed,    \* TRUE once an HTTP request has been sent
    pageNo,     \* 1-based number of the page the paginator fetches next
    start_at,   \* get_all_issues: the offset of the next request
    spaces,     \* get_all_spaces: spaces / process_jira: projects (their keys)
    sp,         \* index in spaces of the space / project being crawled
    pages,      \* get_all_pages: pages / get_all_issues: issues (their ids / keys)
    idx,        \* index in pages of the item being processed
    results,    \* process_*: results, the rows collected so far
    report,     \* the link reports written (each one the rows of a to_csv call)
    warned,     \* TRUE once "No Google Drive links found in any ..." was logged
    served,     \* history: result lists of the pages fetched by the paginator call in progress
    requested,  \* history: the startAt values requested by the get_all_issues call in progress
    spacesFile, \* the contents written to spaces_list.csv, one per write
    pagLog,     \* history: how the paginator call that ended in the last step ended
    itemLog,    \* history: the item processed last and what happened to it
    node,       \* extractor runs: the value extract_text_and_links is called on
    extracted,  \* extractor runs: <<its result>> for node, <<>> before the call
    flatExtracted, \* extractor runs: <<its result>> for node with its sub-lists flattened
    link_text,  \* classifier runs: the string the link classifiers are called on
    emitted     \* classifier runs: per classifier, <<>> before its call, then <<what it emitted>>

vars == <<script, env, pc, error, attempt, outcome, resp, gaveUp, netUsed, pageNo, start_at,
          spaces, sp, pages, idx, results, report, warned, served, requested,
          spacesFile, pagLog, itemLog, node, extracted, flatExtracted, link_text, emitted>>

\* The variables of a run of a script, and those of a run of the extractor.
crawlVars == <<script, env, pc, error, attempt, outcome, resp, gaveUp, netUsed, pageNo,
               start_at, spaces, sp, pages, idx, results, report, warned, served,
               requested, spacesFile, pagLog, itemLog>>
extractVars == <<node, extracted, flatExtracted>>
classifyVars == <<link_text, emitted>>

(***************************************************************************)
(* Bounds of the model.                                                    *)
(***************************************************************************)
\* The upstream holds at most MaxPages pages per resource: its last page
\* carries no next link (wiki) or is short (issue tracker).
MaxPages == 3
\* The issue tracker holds at most MaxIssuePages pages of issues per project.
MaxIssuePages == 2
\* Extractor runs: a list (a content list, a sub-list) has at most MaxItems items,
\* a regrouped list at most MaxGroups groups of at most MaxGroupLen nodes.
MaxItems == 2
MaxGroups == 2
MaxGroupLen == 2
\* Classifier runs: a string is made of at most MaxPieces pieces (words, URLs,
\* macros) with one space between them.
MaxPieces == 2

(***************************************************************************)
(* Program constants.                                                      *)
(***************************************************************************)
\* stop_after_attempt(5)
StopAfterAttempt == 5
\* max_results = 100
MaxResults == 100

(***************************************************************************)
(* Sequences and strings.                                                  *)
(***************************************************************************)
RECURSIVE Flatten(_)
Flatten(ss) == IF ss = <<>> THEN <<>> ELSE Head(ss) \o Flatten(Tail(ss))

Range(s) == {s[i] : i \in 1..Len(s)}

IsSpace(t) == t = " "

\* str.strip(): leading and trailing whitespace removed.
RECURSIVE LStrip(_)
LStrip(s) == IF s # <<>> /\ IsSpace(Head(s)) THEN LStrip(Tail(s)) ELSE s

RECURSIVE RStrip(_)
RStrip(s) ==
    IF s # <<>> /\ IsSpace(s[Len(s)]) THEN RStrip(SubSeq(s, 1, Len(s) - 1)) ELSE s

Strip(s) == RStrip(LStrip(s))

(***************************************************************************)
(* The upstream services: what a GET may be answered with.                 *)
(***************************************************************************)
\* sent = FALSE: requests.get raised before anything was sent (no base URL,
\* so no URL scheme).  json: whether response.json() can decode the body.
NoResponse == [sent |-> FALSE, status |-> 0, json |-> FALSE]

Responses ==
    { [sent |-> TRUE, status |-> 200, json |-> TRUE],
      [sent |-> TRUE, status |-> 200, json |-> FALSE],
      [sent |-> TRUE, status |-> 202, json |-> TRUE],
      [sent |-> TRUE, status |-> 429, json |-> FALSE],
      [sent |-> TRUE, status |-> 500, json |-> FALSE] }

\* requests.get(url, ...): what may come back for a URL built from the base URL.
Get == IF env.base THEN Responses ELSE {NoResponse}

(***************************************************************************)
(* The fetcher: confluence_request / jira_request under tenacity's @retry. *)
(***************************************************************************)
\* response.raise_for_status(): raises HTTPError for 4xx and 5xx.
RaiseForStatus(status) == status >= 400 /\ status < 600

\* The body of confluence_request raises on response r.
confluence_request_raises(r) ==
    \/ ~r.sent
    \/ r.status = 429
    \/ r.status # 200 /\ RaiseForStatus(r.status)
    \/ ~r.json

\* The body of jira_request raises on response r.
jira_request_raises(r) ==
    \/ ~r.sent
    \/ r.status = 429
    \/ r.status # 200 /\ RaiseForStatus(r.status)
    \/ ~r.json

\* @retry(stop=stop_after_attempt(5), ...) with tenacity's default retry
\* condition (any exception): what attempt number n leads to.
\* confluence_retry stopping one attempt late.
confluence_retry_late(n, raises) ==
    IF ~raises THEN "returned"
    ELSE IF n > StopAfterAttempt THEN "raised" ELSE "retry"

confluence_retry(n, raises) ==
    IF ~raises THEN "returned"
    ELSE IF n >= StopAfterAttempt THEN "raised" ELSE "retry"

jira_retry(n, raises) ==
    IF ~raises THEN "returned"
    ELSE IF n >= StopAfterAttempt THEN "raised" ELSE "retry"

\* The number of the attempt about to be made.
AttemptNo == IF outcome = "retry" THEN attempt + 1 ELSE 1

(***************************************************************************)
(* The wiki link classifier (confluencelinks.py).  The regular expressions *)
(* are matched token by token; every token lies wholly inside or wholly    *)
(* outside each character class the expressions use.                       *)
(***************************************************************************)
Schemes == {"https://", "http://"}
GoogleHosts == {"drive.google.com", "docs.google.com"}
HasGt(t) == t \in {">", "/>"}
IsQuote(t) == t = "\""

\* \S+ from position j on: the index of the last token of the run of
\* non-whitespace tokens that starts at j (j - 1 if s[j] is whitespace).
RECURSIVE NonSpaceEnd(_, _)
NonSpaceEnd(s, j) ==
    IF j <= Len(s) /\ ~IsSpace(s[j]) THEN NonSpaceEnd(s, j + 1) ELSE j - 1

\* GOOGLE_DRIVE_HARDLINK_REGEX = https?://(?:drive|docs)\.google\.com\S+
\* matched at position i: the index of the match's last token, 0 if no match.
ConfluenceHardEnd(s, i) ==
    IF /\ i + 2 <= Len(s)
       /\ s[i] \in Schemes
       /\ s[i + 1] \in GoogleHosts
       /\ ~IsSpace(s[i + 2])
    THEN NonSpaceEnd(s, i + 2)
    ELSE 0

\* re.findall(GOOGLE_DRIVE_HARDLINK_REGEX, s) from position i on.
RECURSIVE ConfluenceHardLinks(_, _)
ConfluenceHardLinks(s, i) ==
    IF i > Len(s) THEN <<>>
    ELSE LET e == ConfluenceHardEnd(s, i)
         IN  IF e > 0 THEN <<SubSeq(s, i, e)>> \o ConfluenceHardLinks(s, e + 1)
             ELSE ConfluenceHardLinks(s, i + 1)

\* GOOGLE_DRIVE_SMARTLINK_REGEX =
\*   <ac:structured-macro[^>]*ac:name="inline-card"[^>]*data-card-url="([^"]*drive\.google\.com[^"]*)"
NameAt(s, p) ==
    /\ p + 3 <= Len(s)
    /\ s[p] = "ac:name=" /\ IsQuote(s[p + 1])
    /\ s[p + 2] = "inline-card" /\ IsQuote(s[p + 3])

UrlAttrAt(s, q) == q + 1 <= Len(s) /\ s[q] = "data-card-url=" /\ IsQuote(s[q + 1])

NoGt(s, a, b) == \A k \in a..b : ~HasGt(s[k])

\* The closing quote of the attribute value that starts at position v (0 if none).
RECURSIVE QuoteFrom(_, _)
QuoteFrom(s, v) ==
    IF v > Len(s) THEN 0 ELSE IF IsQuote(s[v]) THEN v ELSE QuoteFrom(s, v + 1)

\* ([^"]*drive\.google\.com[^"]*)" after the attribute name at q.
SmartValueOk(s, q) ==
    LET e == QuoteFrom(s, q + 2)
    IN  e > 0 /\ \E k \in (q + 2)..(e - 1) : s[k] = "drive.google.com"

\* The (p, q) the expression can match with when it starts at position i:
\* ac:name="inline-card" at p, data-card-url=" at q.
SmartPlaces(s, i) ==
    IF s[i] # "<ac:structured-macro" THEN {}
    ELSE { pq \in ((i + 1)..Len(s)) \X ((i + 1)..Len(s)) :
             /\ NameAt(s, pq[1]) /\ NoGt(s, i + 1, pq[1] - 1)
             /\ pq[2] >= pq[1] + 4
             /\ UrlAttrAt(s, pq[2]) /\ NoGt(s, pq[1] + 4, pq[2] - 1)
             /\ SmartValueOk(s, pq[2]) }

MaxOf(S) == CHOOSE x \in S : \A y \in S : y <= x

\* The place of data-card-url=" in the match the (greedy, backtracking)
\* expression finds at position i; 0 if it does not match there.
ConfluenceSmartAt(s, i) ==
    LET places == SmartPlaces(s, i)
    IN  IF places = {} THEN 0
        ELSE LET p == MaxOf({pq[1] : pq \in places})
             IN  MaxOf({pq[2] : pq \in {x \in places : x[1] = p}})

\* re.findall(GOOGLE_DRIVE_SMARTLINK_REGEX, s) from position i on: the groups.
RECURSIVE ConfluenceSmartLinks(_, _)
ConfluenceSmartLinks(s, i) ==
    IF i > Len(s) THEN <<>>
    ELSE LET q == ConfluenceSmartAt(s, i)
         IN  IF q > 0
             THEN LET e == QuoteFrom(s, q + 2)
                  IN  <<SubSeq(s, q + 2, e - 1)>> \o ConfluenceSmartLinks(s, e + 1)
             ELSE ConfluenceSmartLinks(s, i + 1)

\* extract_google_drive_links(page_content) of confluencelinks.py.
confluence_extract_google_drive_links(page_content) ==
    LET hard_links == ConfluenceHardLinks(page_content, 1)
        smart_links == ConfluenceSmartLinks(page_content, 1)
    IN  [i \in 1..Len(hard_links) |-> <<hard_links[i], "Hardcoded">>]
        \o [i \in 1..Len(smart_links) |-> <<smart_links[i], "Smart Link">>]

(***************************************************************************)
(* JSON values as the issue tracker sends them (jiralinks.py).             *)
(*   [k |-> "dict", type, content, text, attrs, marks]  an object; a field *)
(*        that may be absent is <<>> (absent) or <<v>> (present, value v)  *)
(*   [k |-> "list", items |-> <<...>>]                  an array           *)
(*   [k |-> "str", s |-> <<...>>]                       a string           *)
(*   [k |-> "none"]                                     null, a number ... *)
(***************************************************************************)
None == [k |-> "none"]
Str(s) == [k |-> "str", s |-> s]
List(items) == [k |-> "list", items |-> items]
Dict(type, content, text, attrs, marks) ==
    [k |-> "dict", type |-> type, content |-> content, text |-> text,
     attrs |-> attrs, marks |-> marks]

NoAcc == [text |-> <<>>, links |-> <<>>]

\* Lines 124-127: the hrefs of the marks of type "link", appended to links.
RECURSIVE MarkLinks(_, _)
MarkLinks(marks, links) ==
    IF marks = <<>> THEN links
    ELSE LET mark == Head(marks)
         IN  MarkLinks(Tail(marks),
                       IF /\ mark.type = "link"
                          /\ mark.attrs # <<>>
                          /\ mark.attrs[1].href # <<>>
                       THEN Append(links, mark.attrs[1].href[1])
                       ELSE links)

RECURSIVE extract_text_and_links(_)
RECURSIVE ExtractItems(_, _)

\* ExtractItems adding the separator only after an item that has text.
RECURSIVE ExtractItemsSkipEmpty(_, _)
ExtractItemsSkipEmpty(items, acc) ==
    IF items = <<>> THEN acc
    ELSE LET found == extract_text_and_links(Head(items))
         IN  ExtractItemsSkipEmpty(Tail(items),
                 [text |-> IF found.text = <<>> THEN acc.text
                           ELSE acc.text \o found.text \o <<" ">>,
                  links |-> acc.links \o found.links])

\* Lines 115-118 and 129-132: the loop over the items, from accumulators acc.
ExtractItems(items, acc) ==
    IF items = <<>> THEN acc
    ELSE LET found == extract_text_and_links(Head(items))
         IN  ExtractItems(Tail(items),
                          [text |-> acc.text \o found.text \o <<" ">>,
                           links |-> acc.links \o found.links])

\* ExtractDict handling the marks before the inline card's url.
ExtractDictMarksFirst(content) ==
    LET a1 == IF content.content # <<>> /\ content.content[1].k = "list"
              THEN ExtractItems(content.content[1].items, NoAcc)
              ELSE NoAcc
        a2 == IF content.text # <<>>
              THEN [a1 EXCEPT !.text = @ \o content.text[1] \o <<" ">>]
              ELSE a1
        a3 == IF content.marks # <<>>
              THEN [a2 EXCEPT !.links = MarkLinks(content.marks[1], @)]
              ELSE a2
    IN  IF /\ content.type = "inlineCard"
           /\ content.attrs # <<>>
           /\ content.attrs[1].url # <<>>
        THEN [a3 EXCEPT !.links = Append(@, content.attrs[1].url[1])]
        ELSE a3

\* Lines 113-127: the accumulators after the branch for a dict.
ExtractDict(content) ==
    LET a1 == IF content.content # <<>> /\ content.content[1].k = "list"
              THEN ExtractItems(content.content[1].items, NoAcc)
              ELSE NoAcc
        a2 == IF content.text # <<>>
              THEN [a1 EXCEPT !.text = @ \o content.text[1] \o <<" ">>]
              ELSE a1
        a3 == IF /\ content.type = "inlineCard"
                 /\ content.attrs # <<>>
                 /\ content.attrs[1].url # <<>>
              THEN [a2 EXCEPT !.links = Append(@, content.attrs[1].url[1])]
              ELSE a2
    IN  IF content.marks # <<>>
        THEN [a3 EXCEPT !.links = MarkLinks(content.marks[1], @)]
        ELSE a3

\* extract_text_and_links returning the text without .strip().
extract_text_and_links_nostrip(content) ==
    LET acc == IF content.k = "dict" THEN ExtractDict(content)
               ELSE IF content.k = "list" THEN ExtractItems(content.items, NoAcc)
               ELSE NoAcc
    IN  [text |-> acc.text, links |-> acc.links]

\* extract_text_and_links(content), lines 109-134.
extract_text_and_links(content) ==
    LET acc == IF content.k = "dict" THEN ExtractDict(content)
               ELSE IF content.k = "list" THEN ExtractItems(content.items, NoAcc)
               ELSE NoAcc
    IN  [text |-> Strip(acc.text), links |-> acc.links]

(***************************************************************************)
(* The issue-tracker link classifier.                                      *)
(***************************************************************************)
\* url_pattern = https?://[^\s]+ matched at position i: the index of the
\* match's last token, 0 if no match.
JiraUrlEnd(s, i) ==
    IF i + 1 <= Len(s) /\ s[i] \in Schemes /\ ~IsSpace(s[i + 1])
    THEN NonSpaceEnd(s, i + 1)
    ELSE 0

\* re.findall(url_pattern, s) from position i on.
RECURSIVE JiraUrls(_, _)
JiraUrls(s, i) ==
    IF i > Len(s) THEN <<>>
    ELSE LET e == JiraUrlEnd(s, i)
         IN  IF e > 0 THEN <<SubSeq(s, i, e)>> \o JiraUrls(s, e + 1)
             ELSE JiraUrls(s, i + 1)

\* "drive.google.com" in url or "docs.google.com" in url
ContainsGoogle(url) == \E i \in 1..Len(url) : url[i] \in GoogleHosts

RECURSIVE GoogleOnly(_)
GoogleOnly(urls) ==
    IF urls = <<>> THEN <<>>
    ELSE (IF ContainsGoogle(Head(urls)) THEN <<Head(urls)>> ELSE <<>>)
         \o GoogleOnly(Tail(urls))

\* extract_google_drive_links(text_or_structure) of jiralinks.py.
jira_extract_google_drive_links(v) ==
    LET found == IF v.k \in {"dict", "list"} THEN extract_text_and_links(v)
                 ELSE [text |-> IF v.k = "str" THEN v.s ELSE <<>>, links |-> <<>>]
    IN  GoogleOnly(JiraUrls(found.text, 1)) \o GoogleOnly(found.links)

\* re.search(GOOGLE_DRIVE_HARDLINK_REGEX, link) of jiralinks.py:
\*   https?://(?:drive|docs)\.google\.com/\S+
JiraHardLinkSearch(link) ==
    \E i \in 1..Len(link) :
        /\ i + 2 <= Len(link)
        /\ link[i] \in Schemes
        /\ link[i + 1] \in GoogleHosts
        /\ \/ link[i + 2] = "/" /\ i + 3 <= Len(link) /\ ~IsSpace(link[i + 3])
           \/ link[i + 2] = "/>"

(***************************************************************************)
(* The wiki: spaces, pages and the documents the REST API answers with.    *)
(***************************************************************************)
SpaceA == "A"
SpaceB == "B"

\* The page records the wiki holds, by id: has = which of the expanded
\* fields the record carries.
PagePlain == "plain"
PageHard == "hard"
PageSmart == "smart"
PageNoBody == "nobody"
PageNoVersion == "noversion"

Page(id) ==
    CASE id = PagePlain ->
           [id |-> id, has |-> {"version", "body"}, body |-> <<"a", " ", "a">>]
      [] id = PageHard ->
           [id |-> id, has |-> {"version", "body"},
            body |-> <<"a", " ", "https://", "drive.google.com", "/", "a">>]
      [] id = PageSmart ->
           [id |-> id, has |-> {"version", "body"},
            body |-> <<"<ac:structured-macro", " ", "ac:name=", "\"", "inline-card",
                       "\"", " ", "data-card-url=", "\"", "https://",
                       "drive.google.com", "/", "a", "\"", "/>">>]
      [] id = PageNoBody -> [id |-> id, has |-> {"version"}, body |-> <<>>]
      [] id = PageNoVersion -> [id |-> id, has |-> {"body"}, body |-> <<"a">>]

SpaceLists == {<<>>, <<SpaceA>>, <<SpaceB>>, <<SpaceA, SpaceB>>}
PageLists == {<<>>, <<PageHard, PagePlain>>, <<PageNoBody, PageSmart>>, <<PageNoVersion>>}

\* _links of a result document: "next" (a next link), "none" (no next link),
\* "missing" (no _links at all, which the REST API never sends).
NextKinds(pn) == IF pn < MaxPages THEN {"next", "none"} ELSE {"none"}

\* The documents GET {base}/rest/api/space may answer page pageNo with: the
\* wiki holds the spaces A and B and lists none of them twice.
SpaceDocs ==
    { d \in [results : SpaceLists, next : NextKinds(pageNo)] :
        Range(d.results) \cap Range(spaces) = {} }

\* The documents GET {base}/rest/api/content may answer page pageNo with.
PageDocs == [results : PageLists, next : NextKinds(pageNo)]

(***************************************************************************)
(* The wiki paginators.  One pass of the while loop, after the fetcher     *)
(* ended with outcome o ("raised": it failed after its retries) and, when  *)
(* it returned, with the document data.  The result says whether the loop  *)
(* goes on ("loop") or the function returns, what it returns and why.      *)
(***************************************************************************)
get_all_spaces_step(acc, o, data) ==
    IF o = "raised"
    THEN [to |-> "return", value |-> acc, why |-> "failed", file |-> TRUE]
    ELSE IF data.results = <<>>
    THEN [to |-> "return", value |-> <<>>, why |-> "empty", file |-> FALSE]
    ELSE IF data.next = "missing"
    THEN [to |-> "return", value |-> acc \o data.results, why |-> "keyerror", file |-> TRUE]
    ELSE IF data.next = "none"
    THEN [to |-> "return", value |-> acc \o data.results, why |-> "end", file |-> TRUE]
    ELSE [to |-> "loop", value |-> acc \o data.results, why |-> "next", file |-> FALSE]

\* get_all_pages_step with `return []` in the except clause instead of break.
get_all_pages_step_drop(acc, o, data) ==
    IF o = "raised"
    THEN [to |-> "return", value |-> <<>>, why |-> "failed"]
    ELSE IF data.results = <<>>
    THEN [to |-> "return", value |-> <<>>, why |-> "empty"]
    ELSE IF data.next = "missing"
    THEN [to |-> "return", value |-> acc \o data.results, why |-> "keyerror"]
    ELSE IF data.next = "none"
    THEN [to |-> "return", value |-> acc \o data.results, why |-> "end"]
    ELSE [to |-> "loop", value |-> acc \o data.results, why |-> "next"]

get_all_pages_step(acc, o, data) ==
    IF o = "raised"
    THEN [to |-> "return", value |-> acc, why |-> "failed"]
    ELSE IF data.results = <<>>
    THEN [to |-> "return", value |-> <<>>, why |-> "empty"]
    ELSE IF data.next = "missing"
    THEN [to |-> "return", value |-> acc \o data.results, why |-> "keyerror"]
    ELSE IF data.next = "none"
    THEN [to |-> "return", value |-> acc \o data.results, why |-> "end"]
    ELSE [to |-> "loop", value |-> acc \o data.results, why |-> "next"]

\* Stands for the document of a fetcher call that returned none.
NoDoc == [results |-> <<>>, next |-> "none"]

\* The pages served so far, with the one the fetcher just returned.
Served(o, data) == IF o = "returned" THEN Append(served, data.results) ELSE served

(***************************************************************************)
(* process_confluence.                                                     *)
(***************************************************************************)
ErrorRow(space_key, page) == <<space_key, page.id, <<"ERROR">>, "N/A">>

\* Lines 183-205 for one page: exc = "uncaught" when the statements before
\* the try raise, "caught" when the try block raises; rows = what is appended.
process_page(space_key, page) ==
    IF "version" \notin page.has
    THEN [exc |-> "uncaught", rows |-> <<>>]
    ELSE IF "body" \notin page.has
    THEN [exc |-> "caught", rows |-> <<ErrorRow(space_key, page)>>]
    ELSE LET links == confluence_extract_google_drive_links(page.body)
         IN  [exc |-> "none",
              rows |-> [i \in 1..Len(links) |->
                          <<space_key, page.id, links[i][1], links[i][2]>>]]

\* Where the run stands: pc, error, pageNo, sp, pages, idx, served.
Ctl(p, e, pn, s, pgs, i, sv) ==
    /\ pc' = p /\ error' = e /\ pageNo' = pn
    /\ sp' = s /\ pages' = pgs /\ idx' = i /\ served' = sv

\* ConfluenceReport writing the table also when it has no rows.
ConfluenceReportAlways(rws) ==
    /\ results' = rws
    /\ report' = Append(report, rws)
    /\ warned' = (warned \/ rws = <<>>)

\* Lines 207-215: the report, or the warning when there are no rows.
ConfluenceReport(rws) ==
    /\ results' = rws
    /\ report' = IF rws = <<>> THEN report ELSE Append(report, rws)
    /\ warned' = (warned \/ rws = <<>>)

\* Lines 174-181, the loop over the spaces S at index s with the rows rws:
\* the next get_all_pages call, or the end of the loop and the report.
CrawlSpaces(S, s, rws) ==
    IF s > Len(S)
    THEN Ctl("done", "none", 1, s, <<>>, 1, <<>>) /\ ConfluenceReport(rws)
    ELSE /\ Ctl("get_all_pages", "none", 1, s, <<>>, 1, <<>>)
         /\ results' = rws
         /\ UNCHANGED <<report, warned>>

\* Lines 178-183 once get_all_pages returned P for space s: its pages are
\* processed, or the space is skipped.
CrawlPages(s, P) ==
    IF P = <<>>
    THEN CrawlSpaces(spaces, s + 1, results)
    ELSE /\ Ctl("process_page", "none", 1, s, P, 1, <<>>)
         /\ UNCHANGED <<results, report, warned>>

(***************************************************************************)
(* Initial state: a script is started in some environment.                 *)
(***************************************************************************)
\* No classifier has been called.
Classifiers == {"wiki", "jira_text", "jira_doc", "remote"}
NotClassified == [c \in Classifiers |-> <<>>]

NoPagLog == [fn |-> "none", res |-> 0, why |-> "none", raised |-> FALSE,
             result |-> <<>>, served |-> <<>>]
NoItemLog == [fn |-> "none", sp |-> 0, idx |-> 0, exc |-> "none",
              before |-> <<>>, after |-> <<>>]

\* The environments a script is started in: every required variable set,
\* or one of them absent.
Envs ==
    { e \in [base : BOOLEAN, user : BOOLEAN, token : BOOLEAN] :
        Cardinality({v \in {"base", "user", "token"} : ~e[v]}) <= 1 }

Init ==
    /\ script \in {"confluence", "jira"}
    /\ env \in Envs
    /\ pc = "start" /\ error = "none"
    /\ attempt = 0 /\ outcome = "none" /\ resp = NoResponse /\ netUsed = FALSE
    /\ gaveUp = 0
    /\ pageNo = 1 /\ start_at = 0
    /\ spaces = <<>> /\ sp = 1 /\ pages = <<>> /\ idx = 1
    /\ results = <<>> /\ report = <<>> /\ warned = FALSE
    /\ served = <<>> /\ requested = <<>> /\ spacesFile = <<>>
    /\ pagLog = NoPagLog /\ itemLog = NoItemLog
    /\ node = None /\ extracted = <<>> /\ flatExtracted = <<>>
    /\ link_text = <<>> /\ emitted = NotClassified

(***************************************************************************)
(* confluencelinks.py                                                      *)
(***************************************************************************)
\* Module level, lines 37-63, then process_confluence up to its first GET.
ConfluenceStartup ==
    /\ UNCHANGED extractVars /\ UNCHANGED classifyVars
    /\ pc = "start" /\ script = "confluence"
    /\ IF ~env.base \/ ~env.user \/ ~env.token
       THEN pc' = "crashed" /\ error' = "ValueError"
       ELSE pc' = "get_all_spaces" /\ error' = "none"
    /\ UNCHANGED <<script, env, attempt, outcome, resp, gaveUp, netUsed, pageNo, start_at,
                   spaces, sp, pages, idx, results, report, warned, served,
                   requested, spacesFile, pagLog, itemLog>>

\* The fetcher call in progress after attempt n got response r with outcome
\* o; once the call has returned or raised, no call is in progress.
Fetcher(n, o, r) ==
    /\ netUsed' = (netUsed \/ r.sent)
    /\ gaveUp' = IF o = "raised" THEN n ELSE 0
    /\ IF o = "retry"
       THEN attempt' = n /\ outcome' = o /\ resp' = r
       ELSE attempt' = 0 /\ outcome' = "none" /\ resp' = NoResponse

\* get_all_spaces after a fetcher call ended with outcome o and document data.
GetAllSpacesNext(o, data) ==
    LET st == get_all_spaces_step(spaces, o, data)
    IN  IF st.to = "loop"
        THEN /\ spaces' = st.value /\ pageNo' = pageNo + 1
             /\ served' = Served(o, data) /\ pagLog' = NoPagLog
             /\ UNCHANGED <<pc, error, sp, pages, idx, results, report,
                            warned, spacesFile>>
        ELSE /\ spaces' = st.value
             /\ spacesFile' = IF st.file THEN Append(spacesFile, st.value)
                              ELSE spacesFile
             /\ pagLog' = [fn |-> "get_all_spaces", res |-> 0, why |-> st.why,
                           raised |-> FALSE, result |-> st.value,
                           served |-> Served(o, data)]
             /\ IF st.value = <<>>
                THEN /\ Ctl("done", "none", 1, sp, <<>>, 1, <<>>)
                     /\ UNCHANGED <<results, report, warned>>
                ELSE CrawlSpaces(st.value, 1, results)

\* One GET of get_all_spaces and what follows it up to the next GET.
GetAllSpacesFetch ==
    /\ UNCHANGED extractVars /\ UNCHANGED classifyVars
    /\ pc = "get_all_spaces"
    /\ \E r \in Get :
        LET n == AttemptNo
            o == confluence_retry(n, confluence_request_raises(r))
        IN  /\ Fetcher(n, o, r)
            /\ CASE o = "retry" ->
                      /\ pagLog' = NoPagLog
                      /\ UNCHANGED <<pc, error, pageNo, spaces, sp, pages, idx, results,
                                     report, warned, served, spacesFile>>
                 [] o = "raised" -> GetAllSpacesNext(o, NoDoc)
                 [] o = "returned" -> \E data \in SpaceDocs : GetAllSpacesNext(o, data)
    /\ itemLog' = NoItemLog
    /\ UNCHANGED <<script, env, start_at, requested>>

\* get_all_pages after a fetcher call ended with outcome o and document data.
GetAllPagesNext(o, data) ==
    LET st == get_all_pages_step(pages, o, data)
    IN  IF st.to = "loop"
        THEN /\ pages' = st.value /\ pageNo' = pageNo + 1
             /\ served' = Served(o, data) /\ pagLog' = NoPagLog
             /\ UNCHANGED <<pc, error, sp, idx, results, report, warned>>
        ELSE /\ pagLog' = [fn |-> "get_all_pages", res |-> sp, why |-> st.why,
                           raised |-> FALSE, result |-> st.value,
                           served |-> Served(o, data)]
             /\ CrawlPages(sp, st.value)

\* One GET of get_all_pages and what follows it up to the next GET or page.
GetAllPagesFetch ==
    /\ UNCHANGED extractVars /\ UNCHANGED classifyVars
    /\ pc = "get_all_pages"
    /\ \E r \in Get :
        LET n == AttemptNo
            o == confluence_retry(n, confluence_request_raises(r))
        IN  /\ Fetcher(n, o, r)
            /\ CASE o = "retry" ->
                      /\ pagLog' = NoPagLog
                      /\ UNCHANGED <<pc, error, pageNo, sp, pages, idx, results,
                                     report, warned, served>>
                 [] o = "raised" -> GetAllPagesNext(o, NoDoc)
                 [] o = "returned" -> \E data \in PageDocs : GetAllPagesNext(o, data)
    /\ itemLog' = NoItemLog
    /\ UNCHANGED <<script, env, start_at, spaces, requested, spacesFile>>

\* The body of the loop over pages for pages[idx], and what follows it up
\* to the next page or GET.
ProcessPage ==
    /\ UNCHANGED extractVars /\ UNCHANGED classifyVars
    /\ pc = "process_page"
    /\ LET page == Page(pages[idx])
           got == process_page(spaces[sp], page)
           rws == results \o got.rows
       IN  /\ gaveUp' = 0 /\ pagLog' = NoPagLog
           /\ itemLog' = [fn |-> "process_confluence", sp |-> sp, idx |-> idx,
                          exc |-> got.exc, before |-> results, after |-> rws]
           /\ IF got.exc = "uncaught"
              THEN /\ pc' = "crashed" /\ error' = "KeyError"
                   /\ UNCHANGED <<pageNo, sp, pages, idx, served, results, report, warned>>
              ELSE IF idx < Len(pages)
              THEN /\ idx' = idx + 1 /\ results' = rws
                   /\ UNCHANGED <<pc, error, pageNo, sp, pages, served, report, warned>>
              ELSE CrawlSpaces(spaces, sp + 1, rws)
    /\ UNCHANGED <<script, env, attempt, outcome, resp, netUsed, start_at, spaces,
                   requested, spacesFile>>

(***************************************************************************)
(* The issue tracker: projects, issues and the documents its REST API      *)
(* answers with.                                                           *)
(***************************************************************************)
DriveUrl == <<"https://", "drive.google.com", "/", "a">>
DocsUrl == <<"https://", "docs.google.com", "/", "a">>
EvilUrl == <<"https://", "evil.com", "/", "a">>

EmptyDict == Dict("", <<>>, <<>>, <<>>, <<>>)
TextNode(text) == Dict("text", <<>>, <<text>>, <<>>, <<>>)
LinkMark(href) == [type |-> "link", attrs |-> <<[href |-> <<href>>]>>]
StrongMark == [type |-> "strong", attrs |-> <<>>]
InlineCard(url) == Dict("inlineCard", <<>>, <<>>, <<[url |-> <<url>>]>>, <<>>)
Paragraph(items) == Dict("paragraph", <<List(items)>>, <<>>, <<>>, <<>>)
Doc(items) == Dict("doc", <<List(items)>>, <<>>, <<>>, <<>>)

\* fields.comment when it is an object; a comment is [body |-> <<>> or <<v>>].
CommentField(comments) == [k |-> "comments", comments |-> comments]

\* An issue: its key, the fields of interest (<<>>: absent, <<v>>: value v),
\* its customfield_* fields in order, and the remote links the tracker
\* holds for it.
ProjectA == "PA"
ProjectB == "PB"

IssueClean == "clean"
IssueLinked == "linked"
IssueNullComment == "nullcomment"

Issue(key) ==
    CASE key = IssueClean ->
           [key |-> key, summary |-> <<Str(<<"a">>)>>, description |-> <<None>>,
            comment |-> <<CommentField(<<>>)>>, custom |-> <<>>,
            environment |-> <<>>, remote |-> <<>>]
      [] key = IssueLinked ->
           [key |-> key, summary |-> <<Str(<<"a", " ">> \o DriveUrl)>>,
            description |->
               <<Doc(<<Paragraph(<<TextNode(<<"a">>), InlineCard(DocsUrl),
                                   Dict("text", <<>>, <<<<"b">>>>, <<>>,
                                        <<<<StrongMark, LinkMark(EvilUrl)>>>>)>>)>>)>>,
            comment |->
               <<CommentField(
                   <<[body |-> <<Doc(<<Paragraph(<<TextNode(EvilUrl)>>)>>)>>],
                     [body |-> <<Str(DocsUrl)>>]>>)>>,
            custom |-> <<[name |-> "customfield_1", value |-> None]>>,
            environment |-> <<Str(<<>>)>>,
            remote |-> <<[object |-> <<[url |-> <<DriveUrl>>]>>],
                         [object |-> <<[url |-> <<EvilUrl>>]>>],
                         [object |-> <<>>]>>]
      [] key = IssueNullComment ->
           [key |-> key, summary |-> <<Str(DocsUrl)>>, description |-> <<>>,
            comment |-> <<None>>, custom |-> <<>>, environment |-> <<>>,
            remote |-> <<[object |-> <<[url |-> <<DocsUrl>>]>>]>>]

FullBatch == [i \in 1..MaxResults |-> IssueClean]

ProjectLists == {<<>>, <<ProjectA>>, <<ProjectA, ProjectB>>}
IssueLists == {<<>>, <<IssueLinked>>, <<IssueNullComment, IssueClean>>, FullBatch}

\* The documents GET {base}/rest/api/3/search may answer page pageNo with.
IssueDocs ==
    { d \in [issues : IssueLists] :
        pageNo >= MaxIssuePages => Len(d.issues) < MaxResults }

NoIssueDoc == [issues |-> <<>>]

(***************************************************************************)
(* get_all_issues: one pass of the while loop, after the fetcher ended     *)
(* with outcome o and, when it returned, with the document data.           *)
(***************************************************************************)
\* get_all_issues_step advancing the offset by one instead of max_results.
get_all_issues_step_by_one(acc, start, o, data) ==
    IF o = "raised"
    THEN [to |-> "raise", value |-> acc, start |-> start, why |-> "failed"]
    ELSE LET batch_issues == data.issues
         IN  IF Len(batch_issues) < MaxResults
             THEN [to |-> "return", value |-> acc \o batch_issues, start |-> start,
                   why |-> IF batch_issues = <<>> THEN "empty" ELSE "end"]
             ELSE [to |-> "loop", value |-> acc \o batch_issues,
                   start |-> start + 1, why |-> "next"]

get_all_issues_step(acc, start, o, data) ==
    IF o = "raised"
    THEN [to |-> "raise", value |-> acc, start |-> start, why |-> "failed"]
    ELSE LET batch_issues == data.issues
         IN  IF Len(batch_issues) < MaxResults
             THEN [to |-> "return", value |-> acc \o batch_issues, start |-> start,
                   why |-> IF batch_issues = <<>> THEN "empty" ELSE "end"]
             ELSE [to |-> "loop", value |-> acc \o batch_issues,
                   start |-> start + MaxResults, why |-> "next"]

\* get_issue_links(issue_key), lines 98-106, after the fetcher ended with
\* outcome o and document data: the urls of the links that have an object.
RECURSIVE ObjectUrls(_)
ObjectUrls(data) ==
    IF data = <<>> THEN <<>>
    ELSE (IF Head(data).object = <<>> THEN <<>>
          ELSE IF Head(data).object[1].url = <<>> THEN << <<>> >>
          ELSE <<Head(data).object[1].url[1]>>)
         \o ObjectUrls(Tail(data))

get_issue_links(o, data) == IF o = "raised" THEN <<>> ELSE ObjectUrls(data)

(***************************************************************************)
(* process_jira.                                                           *)
(***************************************************************************)
\* The rows [project_key, issue_key, summary, link, source] for links.
JiraRows(project_key, issue_key, links, source) ==
    [i \in 1..Len(links) |-> <<project_key, issue_key, links[i], source>>]

\* Lines 213-218: the rows of the comments from number i on.
RECURSIVE CommentRows(_, _, _, _)
CommentRows(project_key, issue_key, comments, i) ==
    IF i > Len(comments) THEN <<>>
    ELSE LET comment_body == IF comments[i].body = <<>> THEN EmptyDict
                             ELSE comments[i].body[1]
         IN  JiraRows(project_key, issue_key,
                      jira_extract_google_drive_links(comment_body), <<"Comment", i>>)
             \o CommentRows(project_key, issue_key, comments, i + 1)

\* Lines 221-227: the rows of the custom fields.
RECURSIVE CustomRows(_, _, _)
CustomRows(project_key, issue_key, custom) ==
    IF custom = <<>> THEN <<>>
    ELSE JiraRows(project_key, issue_key,
                  jira_extract_google_drive_links(Head(custom).value),
                  <<"Field", Head(custom).name>>)
         \o CustomRows(project_key, issue_key, Tail(custom))

\* `if environment:`
Truthy(v) ==
    CASE v.k = "none" -> FALSE
      [] v.k = "str" -> v.s # <<>>
      [] v.k = "list" -> v.items # <<>>
      [] OTHER -> v # EmptyDict

\* Lines 192-235 for one issue, up to the call of get_issue_links: exc =
\* "uncaught" when a statement raises (nothing catches it); rows = what
\* is appended to results.
process_issue(project_key, issue) ==
    IF issue.comment # <<>> /\ issue.comment[1].k # "comments"
    THEN [exc |-> "uncaught", rows |-> <<>>]
    ELSE LET summary == IF issue.summary = <<>> THEN Str(<<"N/A">>) ELSE issue.summary[1]
             description == IF issue.description = <<>> THEN EmptyDict
                            ELSE issue.description[1]
             comments == IF issue.comment = <<>> THEN <<>>
                         ELSE issue.comment[1].comments
         IN  [exc |-> "none",
              rows |->
                 JiraRows(project_key, issue.key,
                          jira_extract_google_drive_links(summary), <<"Summary", 0>>)
                 \o JiraRows(project_key, issue.key,
                             jira_extract_google_drive_links(description),
                             <<"Description", 0>>)
                 \o CommentRows(project_key, issue.key, comments, 1)
                 \o CustomRows(project_key, issue.key, issue.custom)
                 \o (IF issue.environment # <<>> /\ Truthy(issue.environment[1])
                     THEN JiraRows(project_key, issue.key,
                                   jira_extract_google_drive_links(issue.environment[1]),
                                   <<"Environment", 0>>)
                     ELSE <<>>)]

\* Lines 241-248: the rows of the remote links.
RECURSIVE RemoteRows(_, _, _)
RemoteRows(project_key, issue_key, remote_links) ==
    IF remote_links = <<>> THEN <<>>
    ELSE (IF JiraHardLinkSearch(Head(remote_links))
          THEN <<<<project_key, issue_key, Head(remote_links), <<"Remote Link", 0>>>>>>
          ELSE <<>>)
         \o RemoteRows(project_key, issue_key, Tail(remote_links))

\* Where the run of jiralinks.py stands.
JiraCtl(p, e, pn, start, s, iss, i, sv, rq) ==
    /\ pc' = p /\ error' = e /\ pageNo' = pn /\ start_at' = start
    /\ sp' = s /\ pages' = iss /\ idx' = i /\ served' = sv /\ requested' = rq

\* Lines 252-258: the report, or the warning when there are no rows.
JiraReport(rws) ==
    /\ results' = rws
    /\ report' = IF rws = <<>> THEN report ELSE Append(report, rws)
    /\ warned' = (warned \/ rws = <<>>)

\* Lines 179-182, the loop over the projects P at index s with the rows
\* rws: the next get_all_issues call, or the end of the loop and the report.
CrawlProjects(P, s, rws, rq) ==
    IF s > Len(P)
    THEN JiraCtl("done", "none", 1, 0, s, <<>>, 1, <<>>, rq) /\ JiraReport(rws)
    ELSE /\ JiraCtl("get_all_issues", "none", 1, 0, s, <<>>, 1, <<>>, <<>>)
         /\ results' = rws
         /\ UNCHANGED <<report, warned>>

\* Module level, lines 31-44, then process_jira up to its first GET.
JiraStartup ==
    /\ UNCHANGED extractVars /\ UNCHANGED classifyVars
    /\ pc = "start" /\ script = "jira"
    /\ pc' = "get_all_projects"
    /\ UNCHANGED <<script, env, error, attempt, outcome, resp, gaveUp, netUsed,
                   pageNo, start_at, spaces, sp, pages, idx, results, report,
                   warned, served, requested, spacesFile, pagLog, itemLog>>

\* One GET of get_all_projects and what follows it up to the next GET.
GetAllProjectsFetch ==
    /\ UNCHANGED extractVars /\ UNCHANGED classifyVars
    /\ pc = "get_all_projects"
    /\ \E r \in Get :
        LET n == AttemptNo
            o == jira_retry(n, jira_request_raises(r))
        IN  /\ Fetcher(n, o, r)
            /\ CASE o = "retry" ->
                      UNCHANGED <<pc, error, pageNo, start_at, spaces, sp, pages, idx,
                                  results, report, warned, served, requested>>
                 [] o = "raised" ->
                      /\ pc' = "crashed" /\ error' = "RetryError"
                      /\ UNCHANGED <<pageNo, start_at, spaces, sp, pages, idx, results,
                                     report, warned, served, requested>>
                 [] o = "returned" ->
                      \E projects \in ProjectLists :
                          /\ spaces' = projects
                          /\ IF projects = <<>>
                             THEN /\ JiraCtl("done", "none", 1, 0, sp, <<>>, 1, <<>>, <<>>)
                                  /\ UNCHANGED <<results, report, warned>>
                             ELSE CrawlProjects(projects, 1, results, <<>>)
    /\ pagLog' = NoPagLog /\ itemLog' = NoItemLog
    /\ UNCHANGED <<script, env, spacesFile>>

\* get_all_issues after a fetcher call ended with outcome o and document
\* data; rq = the offsets requested so far.
GetAllIssuesNext(o, data, rq) ==
    LET st == get_all_issues_step(pages, start_at, o, data)
        sv == IF o = "returned" THEN Append(served, data.issues) ELSE served
        log == [fn |-> "get_all_issues", res |-> sp, why |-> st.why,
                raised |-> st.to = "raise", result |-> st.value, served |-> sv]
    IN  CASE st.to = "loop" ->
               /\ JiraCtl(pc, error, pageNo + 1, st.start, sp, st.value, idx, sv, rq)
               /\ pagLog' = NoPagLog
               /\ UNCHANGED <<results, report, warned>>
          [] st.to = "raise" ->
               /\ JiraCtl("crashed", "RetryError", pageNo, start_at, sp, pages, idx, sv, rq)
               /\ pagLog' = log
               /\ UNCHANGED <<results, report, warned>>
          [] st.to = "return" ->
               /\ pagLog' = log
               /\ IF st.value = <<>>
                  THEN CrawlProjects(spaces, sp + 1, results, rq)
                  ELSE /\ JiraCtl("process_issue", "none", 1, 0, sp, st.value, 1, <<>>, rq)
                       /\ UNCHANGED <<results, report, warned>>

\* One GET of get_all_issues and what follows it up to the next GET or issue.
GetAllIssuesFetch ==
    /\ UNCHANGED extractVars /\ UNCHANGED classifyVars
    /\ pc = "get_all_issues"
    /\ \E r \in Get :
        LET n == AttemptNo
            o == jira_retry(n, jira_request_raises(r))
            rq == IF n = 1 THEN Append(requested, start_at) ELSE requested
        IN  /\ Fetcher(n, o, r)
            /\ CASE o = "retry" ->
                      /\ requested' = rq /\ pagLog' = NoPagLog
                      /\ UNCHANGED <<pc, error, pageNo, start_at, sp, pages, idx,
                                     results, report, warned, served>>
                 [] o = "raised" -> GetAllIssuesNext(o, NoIssueDoc, rq)
                 [] o = "returned" -> \E data \in IssueDocs : GetAllIssuesNext(o, data, rq)
    /\ itemLog' = NoItemLog
    /\ UNCHANGED <<script, env, spaces, spacesFile>>

\* The body of the loop over issues for pages[idx], up to its call of
\* get_issue_links.
ProcessIssue ==
    /\ UNCHANGED extractVars /\ UNCHANGED classifyVars
    /\ pc = "process_issue"
    /\ LET got == process_issue(spaces[sp], Issue(pages[idx]))
           rws == results \o got.rows
       IN  /\ gaveUp' = 0 /\ pagLog' = NoPagLog
           /\ itemLog' = [fn |-> "process_jira", sp |-> sp, idx |-> idx,
                          exc |-> got.exc, before |-> results, after |-> rws]
           /\ IF got.exc = "uncaught"
              THEN pc' = "crashed" /\ error' = "AttributeError" /\ results' = results
              ELSE pc' = "get_issue_links" /\ error' = error /\ results' = rws
    /\ UNCHANGED <<script, env, attempt, outcome, resp, netUsed, pageNo,
                   start_at, spaces, sp, pages, idx, report, warned, served,
                   requested, spacesFile>>

\* The rest of the loop body once get_issue_links returned remote_links,
\* and what follows it up to the next issue or GET.
RemoteLinksNext(remote_links) ==
    LET rws == results \o RemoteRows(spaces[sp], pages[idx], remote_links)
    IN  /\ itemLog' = [itemLog EXCEPT !.after = rws]
        /\ IF idx < Len(pages)
           THEN /\ JiraCtl("process_issue", "none", pageNo, start_at, sp, pages,
                           idx + 1, served, requested)
                /\ results' = rws
                /\ UNCHANGED <<report, warned>>
           ELSE CrawlProjects(spaces, sp + 1, rws, requested)

\* One GET of get_issue_links and what follows it.
GetIssueLinksFetch ==
    /\ UNCHANGED extractVars /\ UNCHANGED classifyVars
    /\ pc = "get_issue_links"
    /\ \E r \in Get :
        LET n == AttemptNo
            o == jira_retry(n, jira_request_raises(r))
        IN  /\ Fetcher(n, o, r)
            /\ IF o = "retry"
               THEN UNCHANGED <<pc, error, pageNo, start_at, sp, pages, idx, results,
                                report, warned, served, requested, itemLog>>
               ELSE RemoteLinksNext(get_issue_links(o, Issue(pages[idx]).remote))
    /\ pagLog' = NoPagLog
    /\ UNCHANGED <<script, env, spaces, spacesFile>>

(***************************************************************************)
(* Runs of the extractor: extract_text_and_links is called on a value      *)
(* drawn from a bounded set of JSON values, and on the same value with the *)
(* sub-lists of its lists flattened.                                       *)
(***************************************************************************)
SeqsUpTo(S, n) == UNION {[1..k -> S] : k \in 0..n}

UrlA == <<"https://", "drive.google.com", "/", "a">>
UrlB == <<"https://", "docs.google.com", "/", "b">>
UrlC == <<"https://", "evil.com", "/", "c">>

\* Nodes without children.
LeafA == TextNode(<<"a">>)
LeafMarked == Dict("text", <<>>, <<<<"b">>>>, <<>>, <<<<StrongMark, LinkMark(UrlA), LinkMark(UrlB)>>>>)
LeafCard == InlineCard(UrlC)
LeafCardText == Dict("inlineCard", <<>>, <<<<" ", "c", " ">>>>, <<[url |-> <<UrlB>>]>>,
                     <<<<LinkMark(UrlA)>>>>)
LeafOdd == Dict("inlineCard", <<None>>, <<>>, <<[url |-> <<>>]>>,
                <<<<[type |-> "link", attrs |-> <<>>],
                    [type |-> "link", attrs |-> <<[href |-> <<>>]>>]>>>>)
Leaves == {LeafA, LeafMarked, LeafCard, LeafCardText, LeafOdd, None, Str(<<"a">>)}

\* Object nodes: every combination of a content list, an own text, an
\* inline-card url and marks.
Children == Leaves \cup {Paragraph(<<LeafA, LeafCard>>), List(<<LeafMarked>>)}
ObjectNodes ==
    { Dict(type, content, text, attrs, marks) :
        type \in {"paragraph", "inlineCard"},
        content \in {<<>>} \cup {<<List(items)>> : items \in SeqsUpTo(Children, MaxItems)},
        text \in {<<>>, <<<<"t">>>>},
        attrs \in {<<>>, <<[url |-> <<UrlC>>]>>},
        marks \in {<<>>, <<<<LinkMark(UrlB), StrongMark>>>>} }

\* Regrouped lists: each group is a node or a sub-list of nodes.
GroupNodes == {LeafMarked, LeafCard}
Groups ==
    GroupNodes \cup {List(items) : items \in SeqsUpTo(GroupNodes, MaxGroupLen)}
    \cup {List(<<List(<<LeafA>>), LeafCard>>)}
GroupedLists == {List(groups) : groups \in SeqsUpTo(Groups, MaxGroups)}

ExtractInputs ==
    Leaves \cup ObjectNodes \cup GroupedLists
    \cup {Dict("paragraph", <<g>>, <<<<"t">>>>, <<>>, <<>>) : g \in GroupedLists}

\* The items with the items of every sub-list in their place, in order.
RECURSIVE FlatItems(_)
FlatItems(items) ==
    IF items = <<>> THEN <<>>
    ELSE (IF Head(items).k = "list" THEN FlatItems(Head(items).items)
          ELSE <<Head(items)>>)
         \o FlatItems(Tail(items))

\* v with the sub-lists of its list (of its content list) flattened.
FlatOf(v) ==
    IF v.k = "list" THEN List(FlatItems(v.items))
    ELSE IF v.k = "dict" /\ v.content # <<>> /\ v.content[1].k = "list"
    THEN [v EXCEPT !.content = <<List(FlatItems(v.content[1].items))>>]
    ELSE v

InitExtract ==
    /\ script = "jira" /\ env = [base |-> TRUE, user |-> TRUE, token |-> TRUE]
    /\ pc = "extract" /\ error = "none"
    /\ attempt = 0 /\ outcome = "none" /\ resp = NoResponse /\ netUsed = FALSE
    /\ gaveUp = 0
    /\ pageNo = 1 /\ start_at = 0
    /\ spaces = <<>> /\ sp = 1 /\ pages = <<>> /\ idx = 1
    /\ results = <<>> /\ report = <<>> /\ warned = FALSE
    /\ served = <<>> /\ requested = <<>> /\ spacesFile = <<>>
    /\ pagLog = NoPagLog /\ itemLog = NoItemLog
    /\ node \in ExtractInputs /\ extracted = <<>> /\ flatExtracted = <<>>
    /\ link_text = <<>> /\ emitted = NotClassified

\* extract_text_and_links(node)
ExtractNode ==
    /\ pc = "extract" /\ extracted = <<>>
    /\ extracted' = <<extract_text_and_links(node)>>
    /\ UNCHANGED <<node, flatExtracted>>
    /\ UNCHANGED crawlVars /\ UNCHANGED classifyVars

\* extract_text_and_links(the flattened node)
ExtractFlat ==
    /\ pc = "extract" /\ flatExtracted = <<>>
    /\ flatExtracted' = <<extract_text_and_links(FlatOf(node))>>
    /\ UNCHANGED <<node, extracted>>
    /\ UNCHANGED crawlVars /\ UNCHANGED classifyVars

NextExtract == ExtractNode \/ ExtractFlat

SpecExtract == InitExtract /\ [][NextExtract]_vars

(***************************************************************************)
(* Runs of the link classifiers: the wiki extract_google_drive_links, the  *)
(* issue-tracker extract_google_drive_links (on a string and on a document *)
(* holding the string as a text and as an inline card's url) and the       *)
(* remote-link test of process_jira are called on a string drawn from a    *)
(* bounded set.                                                            *)
(***************************************************************************)
OtherHost == "evil.com"
Hosts == GoogleHosts \cup {OtherHost}

\* A URL: scheme, host, "/" and a path; the path may be a domain marker.
Url(host, path) == <<"https://", host, "/", path>>
Urls == {Url(host, path) : host \in Hosts, path \in {"a"} \cup GoogleHosts}
       \cup {<<"https://", host>> : host \in Hosts}

\* <ac:structured-macro ac:name="name" data-card-url="url"/>
Macro(name, url) ==
    <<"<ac:structured-macro", " ", "ac:name=", "\"", name, "\"", " ",
      "data-card-url=", "\"">> \o url \o <<"\"", "/>">>

InlineCardMacros ==
    {Macro("inline-card", Url(host, "a")) : host \in Hosts}
    \cup {Macro("inline-card", Url(OtherHost, "drive.google.com"))}

ContentPieces ==
    {<<"a">>} \cup Urls \cup InlineCardMacros
    \cup {Macro("info", Url("drive.google.com", "a")),
          Url(OtherHost, "a") \o Url("drive.google.com", "a")}

\* The pieces with one space between consecutive ones.
RECURSIVE JoinPieces(_)
JoinPieces(pieces) ==
    IF pieces = <<>> THEN <<>>
    ELSE IF Len(pieces) = 1 THEN pieces[1]
    ELSE pieces[1] \o <<" ">> \o JoinPieces(Tail(pieces))

Contents == {JoinPieces(pieces) : pieces \in SeqsUpTo(ContentPieces, MaxPieces)}

InitClassify ==
    /\ script = "jira" /\ env = [base |-> TRUE, user |-> TRUE, token |-> TRUE]
    /\ pc = "classify" /\ error = "none"
    /\ attempt = 0 /\ outcome = "none" /\ resp = NoResponse /\ netUsed = FALSE
    /\ gaveUp = 0
    /\ pageNo = 1 /\ start_at = 0
    /\ spaces = <<>> /\ sp = 1 /\ pages = <<>> /\ idx = 1
    /\ results = <<>> /\ report = <<>> /\ warned = FALSE
    /\ served = <<>> /\ requested = <<>> /\ spacesFile = <<>>
    /\ pagLog = NoPagLog /\ itemLog = NoItemLog
    /\ node = None /\ extracted = <<>> /\ flatExtracted = <<>>
    /\ link_text \in Contents /\ emitted = NotClassified

\* The classifier c has returned the links.
Classified(c, links) ==
    /\ pc = "classify" /\ emitted[c] = <<>>
    /\ emitted' = [emitted EXCEPT ![c] = <<links>>]
    /\ UNCHANGED link_text
    /\ UNCHANGED crawlVars /\ UNCHANGED extractVars

\* extract_google_drive_links(link_text) of confluencelinks.py.
ClassifyWiki == Classified("wiki", confluence_extract_google_drive_links(link_text))

\* extract_google_drive_links(link_text) of jiralinks.py, link_text a string.
ClassifyJiraText == Classified("jira_text", jira_extract_google_drive_links(Str(link_text)))

\* extract_google_drive_links(document) of jiralinks.py.
ClassifyJiraDoc ==
    Classified("jira_doc",
               jira_extract_google_drive_links(
                   Doc(<<Paragraph(<<TextNode(link_text), InlineCard(link_text)>>)>>)))

\* Lines 241-248 of process_jira for the remote link link_text.
ClassifyRemote ==
    LET rows == RemoteRows(ProjectA, IssueClean, <<link_text>>)
    IN  Classified("remote", [i \in 1..Len(rows) |-> rows[i][3]])

NextClassify == ClassifyWiki \/ ClassifyJiraText \/ ClassifyJiraDoc \/ ClassifyRemote

SpecClassify == InitClassify /\ [][NextClassify]_vars

Next ==
    \/ ConfluenceStartup
    \/ GetAllSpacesFetch
    \/ GetAllPagesFetch
    \/ ProcessPage
    \/ JiraStartup
    \/ GetAllProjectsFetch
    \/ GetAllIssuesFetch
    \/ ProcessIssue
    \/ GetIssueLinksFetch

Spec == Init /\ [][Next]_vars

(***************************************************************************)
(* Properties of the paginators, the fetcher and the crawl loops.          *)
(***************************************************************************)
WikiPaginators == {"get_all_spaces", "get_all_pages"}
SomeVariableAbsent == ~env.base \/ ~env.user \/ ~env.token

\* C1: when the fetch of page k fails after its retries, a wiki paginator
\* (get_all_spaces, get_all_pages) does not raise, makes no further fetch
\* for that resource and returns exactly the records of pages 1..k-1, in
\* order.
C1_WikiPartialFailure ==
    pagLog.fn \in WikiPaginators /\ pagLog.why = "failed" =>
        /\ gaveUp = StopAfterAttempt
        /\ pc # "crashed" /\ error = "none"
        /\ pagLog.result = Flatten(pagLog.served)
        /\ attempt = 0 /\ outcome = "none"
        /\ pc # "get_all_spaces"
        /\ ~(pc = "get_all_pages" /\ pagLog.fn = "get_all_pages" /\ sp = pagLog.res)

\* Page 2 of a space failed after page 1 had brought records.
C1_Witness ==
    /\ pagLog.fn = "get_all_pages" /\ pagLog.why = "failed"
    /\ Len(pagLog.served) = 1 /\ pagLog.result # <<>>
    /\ gaveUp = StopAfterAttempt

\* C2: when the fetch of a page fails after its retries, get_all_issues
\* does not raise: it returns the issues of the earlier pages and the run
\* goes on to the remaining projects and the report (stated for runs
\* whose configuration is complete).
C2_IssuesPartialFailure ==
    ~SomeVariableAbsent /\ pagLog.fn = "get_all_issues" /\ pagLog.why = "failed" =>
        /\ ~pagLog.raised
        /\ pc # "crashed" /\ error = "none"
        /\ pagLog.result = Flatten(pagLog.served)

\* C3: in every paginator an empty page ends the pagination and the
\* paginator returns the records of all the earlier pages.
C3_EmptyPageReturnsAccumulated ==
    ~SomeVariableAbsent /\ pagLog.why = "empty" =>
        /\ ~pagLog.raised
        /\ pagLog.result = Flatten(pagLog.served)

\* C4: a fetcher call makes at most 5 attempts; it is never between two
\* attempts after one answered 200 with a JSON document; when the 5th
\* attempt fails no 6th is made and the caller sees the failure.
C4_AtMostFiveAttempts ==
    /\ attempt \in 0..(StopAfterAttempt - 1)
    /\ (outcome = "retry") = (attempt > 0)
    /\ outcome = "retry" => ~(resp.sent /\ resp.status = 200 /\ resp.json)
    /\ gaveUp \in {0, StopAfterAttempt}
    /\ gaveUp = StopAfterAttempt =>
          /\ attempt = 0 /\ outcome = "none"
          /\ script = "confluence" =>
                pagLog.fn \in WikiPaginators /\ pagLog.why = "failed"
          /\ script = "jira" =>
                error = "RetryError" \/ itemLog.fn = "process_jira"

\* A call gave up after its 5th attempt, all of them sent.
C4_Witness ==
    /\ gaveUp = StopAfterAttempt /\ netUsed
    /\ pagLog.fn = "get_all_spaces"

\* C5: an attempt answered with a status that is neither 2xx nor 429 is
\* not retried.
C5_Only429Retried ==
    ~SomeVariableAbsent /\ outcome = "retry" /\ resp.sent =>
        resp.status = 429 \/ (resp.status >= 200 /\ resp.status < 300)

\* C6: in both scripts, when a required configuration variable is absent
\* no request is ever sent and the run does not complete.
C6_MissingConfigNoNetwork ==
    SomeVariableAbsent => ~netUsed /\ pc # "done"

\* C7: in both crawl loops an exception raised while an item is processed
\* is caught: one ERROR row is appended after the rows of the earlier
\* items and the run goes on.
C7_ItemExceptionCaught ==
    ~SomeVariableAbsent /\ itemLog.exc # "none" =>
        /\ itemLog.exc = "caught"
        /\ pc # "crashed"
        /\ Len(itemLog.after) = Len(itemLog.before) + 1
        /\ SubSeq(itemLog.after, 1, Len(itemLog.before)) = itemLog.before
        /\ itemLog.after[Len(itemLog.after)][3] = <<"ERROR">>

(***************************************************************************)
(* Properties of extract_text_and_links.                                   *)
(***************************************************************************)
\* The links of a value in document order.
RECURSIVE LinksInOrder(_)
RECURSIVE ConcatLinks(_)
ConcatLinks(items) ==
    IF items = <<>> THEN <<>>
    ELSE LinksInOrder(Head(items)) \o ConcatLinks(Tail(items))

IsLinkMark(mark) ==
    mark.type = "link" /\ mark.attrs # <<>> /\ mark.attrs[1].href # <<>>

Hrefs(marks) ==
    LET linkMarks == SelectSeq(marks, IsLinkMark)
    IN  [i \in 1..Len(linkMarks) |-> linkMarks[i].attrs[1].href[1]]

LinksInOrder(v) ==
    CASE v.k = "dict" ->
           (IF v.content # <<>> /\ v.content[1].k = "list"
            THEN ConcatLinks(v.content[1].items) ELSE <<>>)
           \o (IF v.type = "inlineCard" /\ v.attrs # <<>> /\ v.attrs[1].url # <<>>
               THEN <<v.attrs[1].url[1]>> ELSE <<>>)
           \o (IF v.marks # <<>> THEN Hrefs(v.marks[1]) ELSE <<>>)
      [] v.k = "list" -> ConcatLinks(v.items)
      [] OTHER -> <<>>

\* C8: the links extract_text_and_links returns are in document order:
\* for an object node those of its content children in order, then its
\* own attrs.url if it is an inlineCard, then the attrs.href of its link
\* marks in order; for a list those of its elements in order; any other
\* value gives no links and no text.
C8_LinksInDocumentOrder ==
    extracted # <<>> =>
        /\ extracted[1].links = LinksInOrder(node)
        /\ node.k \notin {"dict", "list"} =>
              extracted[1] = [text |-> <<>>, links |-> <<>>]

\* An inline card with children, a url of its own and marks was extracted.
C8_Witness ==
    /\ extracted # <<>> /\ node.k = "dict"
    /\ node.type = "inlineCard" /\ node.attrs # <<>> /\ node.marks # <<>>
    /\ node.content # <<>> /\ Len(extracted[1].links) >= 4

\* The pieces of an object node's text: the texts of its content children
\* in order, then its own text.
ChildTexts(v) ==
    IF v.content # <<>> /\ v.content[1].k = "list"
    THEN [i \in 1..Len(v.content[1].items) |->
            extract_text_and_links(v.content[1].items[i]).text]
    ELSE <<>>

Pieces(v) == ChildTexts(v) \o (IF v.text # <<>> THEN <<v.text[1]>> ELSE <<>>)

\* The pieces that are not empty, with one space between consecutive ones.
RECURSIVE JoinNonEmpty(_)
JoinNonEmpty(pieces) ==
    IF pieces = <<>> THEN <<>>
    ELSE LET rest == JoinNonEmpty(Tail(pieces))
         IN  IF Head(pieces) = <<>> THEN rest
             ELSE IF rest = <<>> THEN Head(pieces)
             ELSE Head(pieces) \o <<" ">> \o rest

\* Every piece followed by one space.
RECURSIVE EachThenSpace(_)
EachThenSpace(pieces) ==
    IF pieces = <<>> THEN <<>>
    ELSE Head(pieces) \o <<" ">> \o EachThenSpace(Tail(pieces))

HasSpace(s) == \E i \in 1..Len(s) : IsSpace(s[i])
TwoSpaces(s) == \E i \in 1..(Len(s) - 1) : IsSpace(s[i]) /\ IsSpace(s[i + 1])

\* C9 as claimed: the text of an object node is its pieces with exactly
\* one space between consecutive pieces and no two adjacent spaces, also
\* when a child contributes an empty text (own texts without whitespace).
C9_SingleSpaced ==
    extracted # <<>> /\ node.k = "dict" /\ ~(\E i \in 1..Len(Pieces(node)) :
                                               HasSpace(Pieces(node)[i])) =>
        /\ extracted[1].text = JoinNonEmpty(Pieces(node))
        /\ ~TwoSpaces(extracted[1].text)

\* C9 amended: the text of an object node is its pieces, each followed by
\* one space (an empty piece too), with the whitespace at both ends removed.
C9_EachPieceThenSpace ==
    extracted # <<>> /\ node.k = "dict" =>
        extracted[1].text = Strip(EachThenSpace(Pieces(node)))

\* An object node with an empty-text child between two pieces was extracted.
C9_Witness ==
    /\ extracted # <<>> /\ node.k = "dict" /\ node.text # <<>>
    /\ Len(ChildTexts(node)) = 2
    /\ ChildTexts(node)[1] # <<>> /\ ChildTexts(node)[2] = <<>>
    /\ TwoSpaces(extracted[1].text)

\* s with every run of spaces reduced to one space.
RECURSIVE Collapse(_)
Collapse(s) ==
    IF Len(s) < 2 THEN s
    ELSE IF IsSpace(s[1]) /\ IsSpace(s[2]) THEN Collapse(Tail(s))
    ELSE <<Head(s)>> \o Collapse(Tail(s))

\* Every item, and every item of every sub-list, extracts to some text.
RECURSIVE AllTextful(_)
AllTextful(items) ==
    \A i \in 1..Len(items) :
        /\ extract_text_and_links(items[i]).text # <<>>
        /\ items[i].k = "list" => AllTextful(items[i].items)

\* The list whose grouping is undone: node itself or its content list.
Regrouped ==
    IF node.k = "list" THEN node.items
    ELSE IF node.k = "dict" /\ node.content # <<>> /\ node.content[1].k = "list"
    THEN node.content[1].items
    ELSE <<>>

IsNested == \E i \in 1..Len(Regrouped) : Regrouped[i].k = "list"

\* C10 as claimed: a list of nodes and any nesting of the same nodes into
\* sub-lists extract to the same text and the same links.
C10_RegroupingInvariant ==
    extracted # <<>> /\ flatExtracted # <<>> => extracted[1] = flatExtracted[1]

\* C10 amended: the links are the same; the texts are the same once every
\* run of spaces is reduced to one space, and the same as they are when
\* every node and every sub-list extracts to a text that is not empty.
C10_RegroupingUpToSpaces ==
    extracted # <<>> /\ flatExtracted # <<>> =>
        /\ extracted[1].links = flatExtracted[1].links
        /\ Collapse(extracted[1].text) = Collapse(flatExtracted[1].text)
        /\ AllTextful(Regrouped) => extracted[1].text = flatExtracted[1].text

\* A nested list and its flattening were both extracted and their texts
\* differ.
C10_Witness ==
    /\ extracted # <<>> /\ flatExtracted # <<>> /\ IsNested
    /\ extracted[1].links # <<>>
    /\ extracted[1].text # flatExtracted[1].text

(***************************************************************************)
(* Properties of the link classifiers.                                     *)
(***************************************************************************)
\* The URLs a classifier returned (the wiki classifier returns them with
\* their kind).
EmittedUrls(c) ==
    IF emitted[c] = <<>> THEN {}
    ELSE IF c = "wiki" THEN {emitted[c][1][i][1] : i \in 1..Len(emitted[c][1])}
    ELSE Range(emitted[c][1])

\* C11: no classifier (wiki, issue tracker, remote-link test) emits a URL
\* whose host is neither drive.google.com nor docs.google.com; a marker in
\* the path of a URL with another host does not make the URL match.
C11_EmittedHostHasMarker ==
    \A c \in Classifiers : \A url \in EmittedUrls(c) :
        Len(url) >= 2 /\ url[1] \in Schemes => url[2] \in GoogleHosts

\* C12: a page body that is one inline-card macro whose data-card-url is a
\* URL on drive.google.com or docs.google.com yields exactly one match:
\* the attribute value, of kind "Smart Link".
C12_InlineCardIsOneSmartLink ==
    \A host \in GoogleHosts :
        link_text = Macro("inline-card", Url(host, "a")) /\ emitted["wiki"] # <<>> =>
            emitted["wiki"][1] = << <<Url(host, "a"), "Smart Link">> >>

(***************************************************************************)
(* Properties of the report and of the offset pagination.                  *)
(***************************************************************************)
IsPrefix(s, t) == Len(s) <= Len(t) /\ SubSeq(t, 1, Len(s)) = s

\* C13 as claimed: in both scripts a run that ends with no rows writes no
\* report and logs the warning; a run that ends with rows has written the
\* report exactly once, with the rows in the order they were produced
\* (stated for runs whose configuration is complete).
C13_ReportOrWarning ==
    ~SomeVariableAbsent /\ pc = "done" =>
        IF results = <<>> THEN report = <<>> /\ warned
        ELSE report = <<results>>

\* C13 amended: a run that ends with no rows writes no report, and logs
\* the warning exactly when a space or project was retrieved; a run that
\* ends with rows has written the report exactly once, after the last
\* space or project, with the rows in the order they were produced; no
\* report is written and no warning logged before the end of the run.
C13_ReportOrWarningIfRetrieved ==
    /\ pc = "done" =>
          IF results = <<>> THEN report = <<>> /\ (warned <=> spaces # <<>>)
          ELSE report = <<results>> /\ ~warned /\ sp = Len(spaces) + 1
    /\ pc # "done" => report = <<>> /\ ~warned
    /\ itemLog.fn # "none" =>
          /\ IsPrefix(itemLog.before, itemLog.after)
          /\ pc # "crashed" => results = itemLog.after

\* A run of the wiki script ended with rows of two pages in its report.
C13_Witness ==
    /\ script = "confluence" /\ pc = "done"
    /\ Len(results) >= 2 /\ report = <<results>>
    /\ results[1][2] # results[Len(results)][2]

\* The offsets of the first n requests.
Offsets(n) == [k \in 1..n |-> (k - 1) * MaxResults]

\* C14: in get_all_issues the k-th request uses startAt = (k-1)*100; the
\* loop goes on after full pages only and ends at the first page of fewer
\* than 100 issues; the result is the pages up to and including that one,
\* concatenated in order, duplicates kept.
C14_OffsetPagination ==
    /\ pc = "get_all_issues" =>
          /\ start_at = (pageNo - 1) * MaxResults
          /\ Len(served) = pageNo - 1
          /\ \A i \in 1..Len(served) : Len(served[i]) = MaxResults
          /\ pages = Flatten(served)
          /\ outcome = "retry" => requested = Offsets(pageNo)
          /\ outcome # "retry" /\ pageNo > 1 => requested = Offsets(pageNo - 1)
    /\ pagLog.fn = "get_all_issues" /\ ~pagLog.raised =>
          LET n == Len(pagLog.served)
          IN  /\ n >= 1
              /\ \A i \in 1..(n - 1) : Len(pagLog.served[i]) = MaxResults
              /\ Len(pagLog.served[n]) < MaxResults
              /\ pagLog.result = Flatten(pagLog.served)
              /\ pc # "get_all_issues" => requested = Offsets(n)

\* get_all_issues returned after a full page and a short one.
C14_Witness ==
    /\ pagLog.fn = "get_all_issues" /\ ~pagLog.raised
    /\ Len(pagLog.served) = 2 /\ requested = <<0, MaxResults>>
    /\ Len(pagLog.result) > MaxResults

====
